---------------------------- MODULE Spec2Model ----------------------------
(***************************************************************************)
(* rg_configured_search: the pipeline of searcher.py                       *)
(* (search_and_save_all_files, save_match_to_file, _format_as_hex) over    *)
(* the pattern definitions of config_reader.py (SearchItem).               *)
(*                                                                         *)
(* Text is a sequence of one-character strings, bytes a sequence of        *)
(* numbers 0..255.  Offsets are 0-based as in the code; sequences are      *)
(* 1-based, so byte k of a file is content[k + 1].                         *)
(***************************************************************************)
EXTENDS Integers, Sequences, FiniteSets, TLC

(***************************************************************************)
(* Bounds of the model.                                                    *)
(***************************************************************************)
MaxItems == 2

MaxFiles == 2

MaxLimbs == 3

(***************************************************************************)
(* Characters and bytes.                                                   *)
(***************************************************************************)
Alphabet == <<"0", "1", "2", "6", "a", "b", "f", "x", "F", "X", " ", ".", "_", "g">>

AlphabetCodes == <<48, 49, 50, 54, 97, 98, 102, 120, 70, 88, 32, 46, 95, 103>>

IndexOf(s, e) == CHOOSE i \in 1..Len(s) : s[i] = e

\* ord(c) of an ASCII character: str.encode("utf-8") maps it to this one byte
Ord(c) == AlphabetCodes[IndexOf(Alphabet, c)]

\* the character of an ASCII byte (the engine's decoded text)
Chr(b) == Alphabet[IndexOf(AlphabetCodes, b)]

\* str.encode("utf-8"), on ASCII text
EncodeUtf8(text) == [i \in 1..Len(text) |-> Ord(text[i])]

\* whether the engine can report these bytes as text (valid UTF-8; here: ASCII)
IsUtf8(bytes) == \A i \in 1..Len(bytes) : bytes[i] < 128

DecodeUtf8(bytes) == [i \in 1..Len(bytes) |-> Chr(bytes[i])]

\* str.lower()
Lower(c) == IF c = "F" THEN "f" ELSE IF c = "X" THEN "x" ELSE c

HexChars == <<"0", "1", "2", "3", "4", "5", "6", "7", "8", "9", "a", "b", "c", "d", "e", "f">>

IsHexChar(c) == \E i \in 1..16 : HexChars[i] = c

HexVal(c) == IndexOf(HexChars, c) - 1

\* bytes.hex(): two lowercase hex digits per byte
BytesHex(bytes) ==
  [i \in 1..(2 * Len(bytes)) |->
     IF i % 2 = 1 THEN HexChars[(bytes[(i + 1) \div 2] \div 16) + 1]
                  ELSE HexChars[(bytes[i \div 2] % 16) + 1]]

\* bytes.fromhex() on a string of hex digits of even length
BytesFromHex(s) ==
  [i \in 1..(Len(s) \div 2) |-> 16 * HexVal(s[2 * i - 1]) + HexVal(s[2 * i])]

(***************************************************************************)
(* base64: a base64 string is a sequence of sextets 0..63, 64 for "=".     *)
(***************************************************************************)
B64Pad == 64

RECURSIVE B64Encode(_)
B64Encode(bytes) ==
  IF Len(bytes) = 0 THEN <<>>
  ELSE IF Len(bytes) = 1 THEN
    <<bytes[1] \div 4, (bytes[1] % 4) * 16, B64Pad, B64Pad>>
  ELSE IF Len(bytes) = 2 THEN
    <<bytes[1] \div 4, (bytes[1] % 4) * 16 + bytes[2] \div 16,
      (bytes[2] % 16) * 4, B64Pad>>
  ELSE
    <<bytes[1] \div 4, (bytes[1] % 4) * 16 + bytes[2] \div 16,
      (bytes[2] % 16) * 4 + bytes[3] \div 64, bytes[3] % 64>>
    \o B64Encode(SubSeq(bytes, 4, Len(bytes)))

RECURSIVE B64Decode(_)
B64Decode(s) ==
  IF Len(s) < 4 THEN <<>>
  ELSE
    LET b1 == s[1] * 4 + s[2] \div 16
        b2 == (s[2] % 16) * 16 + s[3] \div 4
        b3 == (s[3] % 4) * 64 + s[4]
    IN  IF s[3] = B64Pad THEN <<b1>>
        ELSE IF s[4] = B64Pad THEN <<b1, b2>>
        ELSE <<b1, b2, b3>> \o B64Decode(SubSeq(s, 5, Len(s)))

(***************************************************************************)
(* config_reader.py: SearchItem                                            *)
(***************************************************************************)
\* re.sub(r"\s+", "", val)
StripWhitespace(s) == SelectSeq(s, LAMBDA c : c # " ")

\* val.replace("0x", ""): every non-overlapping "0x", left to right
RECURSIVE Remove0x(_)
Remove0x(s) ==
  IF Len(s) < 2 THEN s
  ELSE IF s[1] = "0" /\ s[2] = "x" THEN Remove0x(SubSeq(s, 3, Len(s)))
  ELSE <<s[1]>> \o Remove0x(Tail(s))

\* the hex payload after lower(), whitespace removal and "0x" removal
CleanHex(val) == Remove0x(StripWhitespace([i \in 1..Len(val) |-> Lower(val[i])]))

\* what evaluating SearchItem.val_as_bytes raises ("none": it returns)
val_as_bytes_raises(item) ==
  IF item.val_format = "ascii" THEN "none"
  ELSE IF item.val_format = "hex" THEN
    IF Len(CleanHex(item.val)) % 2 # 0 THEN "AssertionError"
    ELSE IF \E i \in 1..Len(CleanHex(item.val)) : ~IsHexChar(CleanHex(item.val)[i])
      THEN "ValueError"
    ELSE "none"
  ELSE "ValueError"

\* SearchItem.val_as_bytes, where it returns
val_as_bytes(item) ==
  IF item.val_format = "ascii" THEN EncodeUtf8(item.val)
  ELSE BytesFromHex(CleanHex(item.val))

\* SearchItem.clean_hex_pattern_searchable: one <<d1, d2>> per "\xd1d2"
clean_hex_pattern_searchable(item) ==
  LET val == BytesHex(val_as_bytes(item))
  IN  [i \in 1..(Len(val) \div 2) |-> <<val[2 * i - 1], val[2 * i]>>]

(***************************************************************************)
(* The configurations and the file trees the runs are drawn from.          *)
(***************************************************************************)
Item(name, val, val_format, happiness_level, write_to_file, before, after) ==
  [name |-> name, val |-> val, val_format |-> val_format,
   happiness_level |-> happiness_level, write_to_file |-> write_to_file,
   byte_count_before_match |-> before, byte_count_after_match |-> after]

ItemPool ==
  << Item("pw", <<"a", "b">>, "ascii", 2, TRUE, 2, 1),
     Item("hx", <<"6", "1", "6", "2">>, "hex", 1, TRUE, 0, 2),
     Item("dg", <<"6", "1", "6", "2">>, "ascii", 1, FALSE, 1, 0),
     Item("ff", <<"0", "X", " ", "F", "F">>, "hex", 3, TRUE, 3, 3),
     Item("odd", <<"0", "x", "0">>, "hex", 1, TRUE, 1, 1),
     Item("b64", <<"a", "b">>, "base64", 1, TRUE, 1, 1) >>

File(path, name, content) == [path |-> path, name |-> name, content |-> content]

FilePool ==
  << File("/d1/a.b", <<"a", ".", "b">>, <<97, 98, 97, 98, 10, 46, 54, 49, 54, 50>>),
     File("/d2/a.b", <<"a", ".", "b">>, <<255, 97, 98>>),
     File("/d1/c", <<"c">>, <<54, 49, 54, 50, 255>>) >>

Min(S) == CHOOSE x \in S : \A y \in S : x <= y

RECURSIVE SortedSeq(_)
SortedSeq(S) == IF S = {} THEN <<>> ELSE <<Min(S)>> \o SortedSeq(S \ {Min(S)})

\* the sub-sequences of pool with 1..n elements, in pool order
Selections(pool, n) ==
  { [i \in 1..Cardinality(S) |-> pool[SortedSeq(S)[i]]] :
      S \in { T \in SUBSET (1..Len(pool)) : Cardinality(T) \in 1..n } }

Registries == Selections(ItemPool, MaxItems)

SearchDirs == Selections(FilePool, MaxFiles)

(***************************************************************************)
(* The external engine (ripgrep --json --byte-offset --text -uuu), as far  *)
(* as the pipeline reads its output: per file a "begin" record, one        *)
(* "match" record per line holding a match, an "end" record; then a        *)
(* "summary".  Matching is leftmost, first alternative first, and          *)
(* non-overlapping.                                                        *)
(***************************************************************************)
\* the bytes "(?-u:\xd1d2...)" denotes
PatternLiteral(pattern) ==
  [i \in 1..Len(pattern) |-> 16 * HexVal(pattern[i][1]) + HexVal(pattern[i][2])]

\* a submatch's "match" object: "text" for valid UTF-8, else base64 "bytes"
MatchRepr(bytes) ==
  IF IsUtf8(bytes) THEN [text |-> DecodeUtf8(bytes)]
  ELSE [bytes |-> B64Encode(bytes)]

HasLiteralAt(line, pos, lit) ==
  /\ Len(lit) > 0
  /\ pos + Len(lit) - 1 <= Len(line)
  /\ SubSeq(line, pos, pos + Len(lit) - 1) = lit

RECURSIVE ScanLine(_, _, _)
ScanLine(lits, line, pos) ==
  IF pos > Len(line) THEN <<>>
  ELSE
    LET hits == { i \in 1..Len(lits) : HasLiteralAt(line, pos, lits[i]) }
    IN  IF hits = {} THEN ScanLine(lits, line, pos + 1)
        ELSE << [start |-> pos - 1,
                 end |-> pos - 1 + Len(lits[Min(hits)]),
                 match |-> MatchRepr(lits[Min(hits)])] >>
             \o ScanLine(lits, line, pos + Len(lits[Min(hits)]))

\* the index of the last byte of the line that starts at from
LineEnd(content, from) ==
  LET nl == { k \in from..Len(content) : content[k] = 10 }
  IN  IF nl = {} THEN Len(content) ELSE Min(nl)

RECURSIVE ScanFile(_, _, _)
ScanFile(lits, file, from) ==
  IF from > Len(file.content) THEN <<>>
  ELSE
    LET last == LineEnd(file.content, from)
        subs == ScanLine(lits, SubSeq(file.content, from, last), 1)
        rest == ScanFile(lits, file, last + 1)
    IN  IF subs = <<>> THEN rest
        ELSE << [type |-> "match",
                 data |-> [path |-> [text |-> file.path],
                           absolute_offset |-> from - 1,
                           submatches |-> subs]] >> \o rest

FileRecords(lits, file) ==
  LET found == ScanFile(lits, file, 1)
  IN  IF found = <<>> THEN <<>>
      ELSE << [type |-> "begin", data |-> [path |-> [text |-> file.path]]] >>
           \o found
           \o << [type |-> "end", data |-> [path |-> [text |-> file.path]]] >>

RECURSIVE EngineRecords(_, _)
EngineRecords(lits, files) ==
  IF files = <<>> THEN << [type |-> "summary"] >>
  ELSE FileRecords(lits, Head(files)) \o EngineRecords(lits, Tail(files))

\* rg.byte_offset()...json().run().as_dict on "p1|p2|..."
RunRipgrep(combined_pattern, files) ==
  EngineRecords([i \in 1..Len(combined_pattern) |->
                   PatternLiteral(combined_pattern[i])], files)

(***************************************************************************)
(* searcher.py: _md5sum, _format_as_hex and the window of                  *)
(* save_match_to_file                                                      *)
(***************************************************************************)
\* _md5sum(str(path.absolute())): six hex digits standing for the digest
_md5sum(path) ==
  IF path = "/d1/a.b" THEN <<"3", "f", "0", "a", "1", "c">>
  ELSE IF path = "/d2/a.b" THEN <<"9", "b", "7", "7", "e", "2">>
  ELSE <<"0", "4", "d", "5", "5", "a">>

\* name.replace(".", "_")
ReplaceDots(name) == [i \in 1..Len(name) |-> IF name[i] = "." THEN "_" ELSE name[i]]

\* output_dir / f"{happiness_level}_{name}" / f"{hash}_{file name}"
Directory(item, file) ==
  [group |-> <<item.happiness_level, item.name>>,
   source |-> _md5sum(file.path) \o <<"_">> \o ReplaceDots(file.name)]

(* A non-negative integer is a sequence of base-65536 limbs, most          *)
(* significant first and without leading zero limbs (zero is <<0>>): the   *)
(* offsets of the file names go beyond the integers of TLC.              *)
RECURSIVE ToLimbs(_)
ToLimbs(n) == IF n < 65536 THEN <<n>> ELSE ToLimbs(n \div 65536) \o <<n % 65536>>

RECURSIVE HexOfNat(_)
HexOfNat(n) ==
  IF n < 16 THEN <<HexChars[n + 1]>>
  ELSE HexOfNat(n \div 16) \o <<HexChars[(n % 16) + 1]>>

\* s left-padded with "0" to at least width characters
ZeroPad(s, width) ==
  IF Len(s) >= width THEN s ELSE [i \in 1..(width - Len(s)) |-> "0"] \o s

RECURSIVE HexOfLimbs(_)
HexOfLimbs(value) ==
  IF Len(value) = 1 THEN HexOfNat(value[1])
  ELSE HexOfLimbs(SubSeq(value, 1, Len(value) - 1))
       \o ZeroPad(HexOfNat(value[Len(value)]), 4)

\* format(value, f"0{width}x")
FormatHex(value, width) == ZeroPad(HexOfLimbs(value), width)

\* for i in range(first, 0, -4): fmt_val = fmt_val[:i] + "_" + fmt_val[i:]
RECURSIVE InsertUnderscores(_, _)
InsertUnderscores(fmt_val, i) ==
  IF i <= 0 THEN fmt_val
  ELSE InsertUnderscores(
         SubSeq(fmt_val, 1, i) \o <<"_">> \o SubSeq(fmt_val, i + 1, Len(fmt_val)),
         i - 4)

\* a variant: the digits are not grouped
FormatAsHexUngrouped(value, width) == FormatHex(value, width)

_format_as_hex(value, width) ==
  LET fmt_val == FormatHex(value, width)
  IN  IF Len(fmt_val) < 4 THEN fmt_val
      ELSE InsertUnderscores(fmt_val, Len(fmt_val) - (Len(fmt_val) % 4) - 4)

\* the number of bytes before the match that save_match_to_file keeps
EffectiveBefore(item, global_offset) ==
  IF global_offset < item.byte_count_before_match THEN global_offset
  ELSE item.byte_count_before_match

\* a variant: the end is not clamped to the file's size
WindowEndUnclamped(item, global_offset, st_size) ==
  global_offset + Len(val_as_bytes(item)) + item.byte_count_after_match

WindowEnd(item, global_offset, st_size) ==
  LET wanted == global_offset + Len(val_as_bytes(item)) + item.byte_count_after_match
  IN  IF wanted < st_size THEN wanted ELSE st_size

\* f"found_g_0x{hex_global}_startat_0x{hex_local}.bin"
OutputFilename(hex_global, hex_local) ==
  <<"found_g_0x">> \o hex_global \o <<"_startat_0x">> \o hex_local \o <<".bin">>

\* source_file.seek(start); source_file.read(length), for length >= -1
ReadFile(bytes, start, length) ==
  LET last == IF length = -1 \/ start + length > Len(bytes) THEN Len(bytes)
              ELSE start + length
  IN  IF start >= last THEN <<>> ELSE SubSeq(bytes, start + 1, last)

\* a variant: the length of what was read is not checked
ReadIsUnchecked(data_bytes, length) == TRUE

\* assert len(data_bytes) == length_of_output_bytes
ReadIsComplete(data_bytes, length) == Len(data_bytes) = length

(***************************************************************************)
(* searcher.py: the correlation and the records of                         *)
(* search_and_save_all_files                                               *)
(***************************************************************************)
\* the condition of the list comprehension that builds applicable_search_items
IsApplicable(item, m) ==
  \/ "text" \in DOMAIN m /\ m.text = item.val
  \/ B64Decode(IF "bytes" \in DOMAIN m THEN m.bytes ELSE <<>>) = val_as_bytes(item)
  \/ EncodeUtf8(IF "text" \in DOMAIN m THEN m.text ELSE <<>>) = val_as_bytes(item)

applicable_search_items(items, submatch) ==
  SelectSeq(items, LAMBDA item : IsApplicable(item, submatch.match))

GlobalOffset(match, submatch) == match.data.absolute_offset + submatch.start

\* variants: every match is saved; the flag is read inverted
SavesAlways(item) == TRUE

SavesInverted(item) == ~item.write_to_file

\* whether the match goes through save_match_to_file
SavesToFile(item) == item.write_to_file

\* SearchItem.as_dict
as_dict(item) ==
  [name |-> item.name, val |-> item.val, val_hex |-> BytesHex(val_as_bytes(item)),
   val_format |-> item.val_format, happiness_level |-> item.happiness_level,
   write_to_file |-> item.write_to_file,
   byte_count_before_match |-> item.byte_count_before_match,
   byte_count_after_match |-> item.byte_count_after_match]

\* match_log_summary, without its uuid and timestamp_utc (fresh values)
MatchLogSummary(item, path, global_offset) ==
  [search_item |-> as_dict(item), source_file_path |-> path,
   global_offset |-> global_offset]

\* a variant: open(path, "w"), which truncates the log
OverwriteLine(log, line) == <<line>>

\* open(path, "a").write(line)
AppendLine(log, line) == Append(log, line)

\* open(path, "wb").write(data) on the files of the output directory
WriteFile(files, path, data) ==
  [p \in DOMAIN files \cup {path} |-> IF p = path THEN data ELSE files[p]]

(***************************************************************************)
(* The state of a run.                                                     *)
(***************************************************************************)
VARIABLES
  search_items,            \* the configuration, as load_config returned it
  search_dir,              \* the files under search_dir, as the engine saw them
  file_size,               \* path -> the file's size now (a file may shrink)
  pc,                      \* where the run is
  raised,                  \* the exception that ended the run, or "none"
  patterns,                \* the patterns handed to the engine
  results,                 \* the engine's records
  match_num,               \* the record the loop is at (1-based)
  submatch_num,            \* the submatch the inner loop is at (1-based)
  search_item,             \* the correlated item of the current submatch
  global_offset,
  directory,
  byte_count_before_match, \* save_match_to_file's locals
  start_global_offset,
  end_global_offset,
  output_filename,
  data_bytes,
  dirs,                    \* the directories made
  artifacts,               \* [directory, filename] -> content of the .bin file
  global_log,              \* output_dir/matches.jsonl
  group_logs,              \* directory -> directory/matches.jsonl
  running_submatch_count,
  saved_to_file_count,
  saved,                   \* the submatches save_match_to_file returned for
  value,                   \* _format_as_hex's last call: its arguments
  width,
  fmt_val                  \* and its result

configVars == <<search_items, search_dir>>

loopVars == <<patterns, results, match_num, submatch_num>>

matchVars == <<search_item, global_offset, directory>>

saveVars ==
  <<byte_count_before_match, start_global_offset, end_global_offset,
    output_filename, data_bytes>>

hexVars == <<value, width, fmt_val>>

outVars == <<dirs, artifacts, global_log, group_logs>>

countVars == <<running_submatch_count, saved_to_file_count, saved>>

vars ==
  <<configVars, file_size, pc, raised, loopVars, matchVars, saveVars, hexVars,
    outVars, countVars>>

NoItem == Item("", <<>>, "ascii", 0, FALSE, 0, 0)

NoDirectory == [group |-> <<0, "">>, source |-> <<>>]

InitRun ==
  /\ file_size = [path \in { search_dir[i].path : i \in 1..Len(search_dir) } |->
                    Len((CHOOSE f \in { search_dir[i] : i \in 1..Len(search_dir) } :
                           f.path = path).content)]
  /\ raised = "none"
  /\ patterns = <<>>
  /\ results = <<>>
  /\ match_num = 0
  /\ submatch_num = 0
  /\ search_item = NoItem
  /\ global_offset = 0
  /\ directory = NoDirectory
  /\ byte_count_before_match = 0
  /\ start_global_offset = 0
  /\ end_global_offset = 0
  /\ output_filename = <<>>
  /\ data_bytes = <<>>
  /\ dirs = {}
  /\ artifacts = <<>>
  /\ global_log = <<>>
  /\ group_logs = <<>>
  /\ running_submatch_count = 0
  /\ saved_to_file_count = 0
  /\ saved = {}

Init ==
  /\ search_items \in Registries
  /\ search_dir \in SearchDirs
  /\ pc = "prepare"
  /\ value = <<0>>
  /\ width = 0
  /\ fmt_val = <<>>
  /\ InitRun

Raise(exception) ==
  /\ pc' = "aborted"
  /\ raised' = exception

CurrentMatch == results[match_num]

CurrentSubmatch == CurrentMatch.data.submatches[submatch_num]

SourceFile ==
  CHOOSE f \in { search_dir[i] : i \in 1..Len(search_dir) } :
    f.path = CurrentMatch.data.path.text

\* the bytes of the source file now
SourceBytes == SubSeq(SourceFile.content, 1, file_size[SourceFile.path])

(***************************************************************************)
(* search_and_save_all_files                                               *)
(***************************************************************************)
\* the first item the pattern loop fails on, with what it raises
PrepareFailure ==
  LET bad == { i \in 1..Len(search_items) :
                 val_as_bytes_raises(search_items[i]) # "none" }
  IN  IF bad = {} THEN "none" ELSE val_as_bytes_raises(search_items[Min(bad)])

PreparePatterns ==
  /\ pc = "prepare"
  /\ IF PrepareFailure # "none"
       THEN /\ Raise(PrepareFailure)
            /\ UNCHANGED patterns
       ELSE /\ patterns' = [i \in 1..Len(search_items) |->
                              clean_hex_pattern_searchable(search_items[i])]
            /\ pc' = "engine"
            /\ UNCHANGED raised
  /\ UNCHANGED <<configVars, file_size, results, match_num, submatch_num,
                 matchVars, saveVars, hexVars, outVars, countVars>>

RunEngine ==
  /\ pc = "engine"
  /\ results' = RunRipgrep(patterns, search_dir)
  /\ match_num' = 1
  /\ pc' = "loop"
  /\ UNCHANGED <<configVars, file_size, raised, patterns, submatch_num,
                 matchVars, saveVars, hexVars, outVars, countVars>>

Finish ==
  /\ pc = "loop"
  /\ match_num > Len(results)
  /\ pc' = "done"
  /\ UNCHANGED <<configVars, file_size, raised, loopVars, matchVars, saveVars,
                 hexVars, outVars, countVars>>

SkipRecord ==
  /\ pc = "loop"
  /\ match_num <= Len(results)
  /\ CurrentMatch.type # "match"
  /\ match_num' = match_num + 1
  /\ UNCHANGED <<configVars, file_size, pc, raised, patterns, results,
                 submatch_num, matchVars, saveVars, hexVars, outVars, countVars>>

BeginMatch ==
  /\ pc = "loop"
  /\ match_num <= Len(results)
  /\ CurrentMatch.type = "match"
  /\ IF Len(CurrentMatch.data.submatches) >= 1
       THEN /\ submatch_num' = 1
            /\ pc' = "correlate"
            /\ UNCHANGED raised
       ELSE /\ Raise("AssertionError")
            /\ UNCHANGED submatch_num
  /\ UNCHANGED <<configVars, file_size, patterns, results, match_num,
                 matchVars, saveVars, hexVars, outVars, countVars>>

Correlate ==
  /\ pc = "correlate"
  /\ LET applicable == applicable_search_items(search_items, CurrentSubmatch)
     IN  IF Len(applicable) # 1
           THEN /\ Raise("AssertionError")
                /\ UNCHANGED <<matchVars, dirs>>
           ELSE /\ search_item' = applicable[1]
                /\ global_offset' = GlobalOffset(CurrentMatch, CurrentSubmatch)
                /\ directory' = Directory(applicable[1], SourceFile)
                /\ dirs' = dirs \cup {Directory(applicable[1], SourceFile)}
                /\ pc' = IF SavesToFile(applicable[1]) THEN "save_stat"
                         ELSE "log_global"
                /\ UNCHANGED raised
  /\ UNCHANGED <<configVars, file_size, loopVars, saveVars, hexVars, artifacts,
                 global_log, group_logs, countVars>>

(***************************************************************************)
(* save_match_to_file                                                      *)
(***************************************************************************)
\* up to output_path: the window and the file name
SaveStat ==
  /\ pc = "save_stat"
  /\ IF ~search_item.write_to_file
          \/ global_offset - EffectiveBefore(search_item, global_offset) < 0
       THEN /\ Raise("AssertionError")
            /\ UNCHANGED <<saveVars, hexVars>>
       ELSE LET before == EffectiveBefore(search_item, global_offset)
                hex_global == _format_as_hex(ToLimbs(global_offset), 12)
                hex_local == _format_as_hex(ToLimbs(before), 4)
            IN  /\ byte_count_before_match' = before
                /\ start_global_offset' = global_offset - before
                /\ end_global_offset' =
                     WindowEnd(search_item, global_offset, file_size[SourceFile.path])
                /\ output_filename' = OutputFilename(hex_global, hex_local)
                /\ value' = ToLimbs(before)
                /\ width' = 4
                /\ fmt_val' = hex_local
                /\ pc' = "save_read"
                /\ UNCHANGED <<raised, data_bytes>>
  /\ UNCHANGED <<configVars, file_size, loopVars, matchVars, outVars, countVars>>

\* with open(source_file_path, "rb"): seek, read, and the assert on the length
SaveRead ==
  /\ pc = "save_read"
  /\ LET length == end_global_offset - start_global_offset
         data == ReadFile(SourceBytes, start_global_offset, length)
     IN  IF length < -1
           THEN /\ Raise("ValueError")
                /\ UNCHANGED data_bytes
           ELSE /\ data_bytes' = data
                /\ IF ReadIsComplete(data, length)
                     THEN /\ pc' = "save_write"
                          /\ UNCHANGED raised
                     ELSE Raise("AssertionError")
  /\ UNCHANGED <<configVars, file_size, loopVars, matchVars,
                 byte_count_before_match, start_global_offset, end_global_offset,
                 output_filename, hexVars, outVars, countVars>>

\* with open(output_path, "wb"): write; then saved_to_file_count += 1
SaveWrite ==
  /\ pc = "save_write"
  /\ artifacts' = WriteFile(artifacts,
                            [directory |-> directory, filename |-> output_filename],
                            data_bytes)
  /\ saved_to_file_count' = saved_to_file_count + 1
  /\ saved' = saved \cup {<<match_num, submatch_num>>}
  /\ pc' = "log_global"
  /\ UNCHANGED <<configVars, file_size, raised, loopVars, matchVars, saveVars,
                 hexVars, dirs, global_log, group_logs, running_submatch_count>>

(***************************************************************************)
(* search_and_save_all_files: the two logs                                 *)
(***************************************************************************)
LogGlobal ==
  /\ pc = "log_global"
  /\ global_log' =
       AppendLine(global_log,
                  MatchLogSummary(search_item, SourceFile.path, global_offset))
  /\ pc' = "log_group"
  /\ UNCHANGED <<configVars, file_size, raised, loopVars, matchVars, saveVars,
                 hexVars, dirs, artifacts, group_logs, countVars>>

GroupLog(d) == IF d \in DOMAIN group_logs THEN group_logs[d] ELSE <<>>

LogGroup ==
  /\ pc = "log_group"
  /\ group_logs' =
       WriteFile(group_logs, directory,
                 AppendLine(GroupLog(directory),
                            MatchLogSummary(search_item, SourceFile.path,
                                            global_offset)))
  /\ running_submatch_count' = running_submatch_count + 1
  /\ IF submatch_num < Len(CurrentMatch.data.submatches)
       THEN /\ submatch_num' = submatch_num + 1
            /\ pc' = "correlate"
            /\ UNCHANGED match_num
       ELSE /\ match_num' = match_num + 1
            /\ pc' = "loop"
            /\ UNCHANGED submatch_num
  /\ UNCHANGED <<configVars, file_size, raised, patterns, results, matchVars,
                 saveVars, hexVars, dirs, artifacts, global_log,
                 saved_to_file_count, saved>>

(***************************************************************************)
(* The environment: the source file shrinks while the run is at it, and    *)
(* the operating system refuses a read or a write.                         *)
(***************************************************************************)
Truncate ==
  /\ pc \in {"save_stat", "save_read"}
  /\ \E n \in 0..(file_size[SourceFile.path] - 1) :
       file_size' = [file_size EXCEPT ![SourceFile.path] = n]
  /\ UNCHANGED <<configVars, pc, raised, loopVars, matchVars, saveVars, hexVars,
                 outVars, countVars>>

\* open(source_file_path, "rb") or read raises
ReadFails ==
  /\ pc = "save_read"
  /\ Raise("OSError")
  /\ UNCHANGED <<configVars, file_size, loopVars, matchVars, saveVars, hexVars,
                 outVars, countVars>>

\* open(output_path, "wb") raises (nothing is made), or write raises (the file
\* is left as open made it: empty)
WriteFails ==
  /\ pc = "save_write"
  /\ Raise("OSError")
  /\ \/ UNCHANGED artifacts
     \/ artifacts' = WriteFile(artifacts,
                               [directory |-> directory,
                                filename |-> output_filename],
                               <<>>)
  /\ UNCHANGED <<configVars, file_size, loopVars, matchVars, saveVars, hexVars,
                 dirs, global_log, group_logs, countVars>>

\* open(..., "a") or write raises on one of the two logs
LogFails ==
  /\ pc \in {"log_global", "log_group"}
  /\ Raise("OSError")
  /\ UNCHANGED <<configVars, file_size, loopVars, matchVars, saveVars, hexVars,
                 outVars, countVars>>

Next ==
  \/ PreparePatterns
  \/ RunEngine
  \/ Finish
  \/ SkipRecord
  \/ BeginMatch
  \/ Correlate
  \/ SaveStat
  \/ SaveRead
  \/ SaveWrite
  \/ LogGlobal
  \/ LogGroup
  \/ Truncate
  \/ ReadFails
  \/ WriteFails
  \/ LogFails

Spec == Init /\ [][Next]_vars

(***************************************************************************)
(* _format_as_hex as a function of its arguments.                          *)
(***************************************************************************)
LimbValues == {0, 1, 171, 4096, 65535}

RECURSIVE LimbSeqs(_)
LimbSeqs(n) ==
  IF n = 0 THEN {<<>>}
  ELSE { Append(s, l) : s \in LimbSeqs(n - 1), l \in LimbValues }

\* the integers of up to MaxLimbs limbs
HexValues ==
  { s \in UNION { LimbSeqs(n) : n \in 1..MaxLimbs } : Len(s) = 1 \/ s[1] # 0 }

InitHex ==
  /\ search_items = <<ItemPool[1]>>
  /\ search_dir = <<FilePool[1]>>
  /\ pc = "format_as_hex"
  /\ value \in HexValues
  /\ width \in {4, 12, 16}
  /\ fmt_val = <<>>
  /\ InitRun

FormatAsHex ==
  /\ pc = "format_as_hex"
  /\ fmt_val' = _format_as_hex(value, width)
  /\ pc' = "formatted"
  /\ UNCHANGED <<configVars, file_size, raised, loopVars, matchVars, saveVars,
                 value, width, outVars, countVars>>

NextHex == FormatAsHex

SpecHex == InitHex /\ [][NextHex]_vars

(***************************************************************************)
(* What the properties below read off a state.                             *)
(***************************************************************************)
MinOf(a, b) == IF a < b THEN a ELSE b

MaxOf(a, b) == IF a > b THEN a ELSE b

FileByPath(path) ==
  CHOOSE f \in { search_dir[i] : i \in 1..Len(search_dir) } : f.path = path

SubmatchesOf(m) ==
  IF results[m].type = "match"
    THEN [s \in 1..Len(results[m].data.submatches) |-> <<m, s>>]
    ELSE <<>>

RECURSIVE FlatUpTo(_)
FlatUpTo(m) == IF m = 0 THEN <<>> ELSE FlatUpTo(m - 1) \o SubmatchesOf(m)

\* the submatches of the engine's "match" records, in the order it emitted them
Flat == FlatUpTo(Len(results))

SubmatchAt(ms) == results[ms[1]].data.submatches[ms[2]]

\* the bytes the engine matched, whichever way it reports them
MatchedBytes(submatch) ==
  IF "text" \in DOMAIN submatch.match THEN EncodeUtf8(submatch.match.text)
  ELSE B64Decode(submatch.match.bytes)

\* the definitions whose byte_value is bytes
Owners(bytes) ==
  { i \in 1..Len(search_items) : val_as_bytes(search_items[i]) = bytes }

DistinctByteValues ==
  \A i, j \in 1..Len(search_items) :
    i # j => val_as_bytes(search_items[i]) # val_as_bytes(search_items[j])

\* the record the audit trail owes submatch ms
ExpectedRecord(ms) ==
  [search_item |->
     as_dict(search_items[CHOOSE i \in Owners(MatchedBytes(SubmatchAt(ms))) : TRUE]),
   source_file_path |-> results[ms[1]].data.path.text,
   global_offset |-> results[ms[1]].data.absolute_offset + SubmatchAt(ms).start]

\* the pattern's bytes stand at the record's global_offset in its file
PointsAtPattern(rec) ==
  LET content == FileByPath(rec.source_file_path).content
      bytes == BytesFromHex(rec.search_item.val_hex)
  IN  /\ rec.global_offset + Len(bytes) <= Len(content)
      /\ SubSeq(content, rec.global_offset + 1, rec.global_offset + Len(bytes)) = bytes

RecordDirectory(rec) == Directory(rec.search_item, FileByPath(rec.source_file_path))

RecordArtifact(rec) ==
  [directory |-> RecordDirectory(rec),
   filename |->
     OutputFilename(
       _format_as_hex(ToLimbs(rec.global_offset), 12),
       _format_as_hex(ToLimbs(EffectiveBefore(rec.search_item, rec.global_offset)), 4))]

IsPrefix(s, t) == Len(s) <= Len(t) /\ SubSeq(t, 1, Len(s)) = s

\* the number a group of four hex digits at s[k..k+3] denotes, -1 if it is none
GroupValue(s, k) ==
  IF k + 3 <= Len(s) /\ \A i \in k..(k + 3) : IsHexChar(s[i])
    THEN 4096 * HexVal(s[k]) + 256 * HexVal(s[k + 1]) + 16 * HexVal(s[k + 2])
         + HexVal(s[k + 3])
    ELSE -1

\* limb j of n limbs of v, v taken with leading zero limbs
PaddedLimb(v, n, j) == IF j <= n - Len(v) THEN 0 ELSE v[j - (n - Len(v))]

\* the hex_local part of an output file name
LocalPart(filename) ==
  SubSeq(filename, IndexOf(filename, "_startat_0x") + 1, Len(filename) - 1)

EngineInvoked == match_num > 0

(***************************************************************************)
(* C1.  Correlation uniqueness: with pairwise distinct byte values and a   *)
(* submatch whose bytes are the byte value of exactly one definition, the  *)
(* correlation selects exactly that definition.                            *)
(***************************************************************************)
CorrelationUnique ==
  (pc = "correlate" /\ DistinctByteValues
     /\ Cardinality(Owners(MatchedBytes(CurrentSubmatch))) = 1)
  => applicable_search_items(search_items, CurrentSubmatch)
       = << search_items[CHOOSE i \in Owners(MatchedBytes(CurrentSubmatch)) : TRUE] >>

(***************************************************************************)
(* C2.  Configuration errors are fatal before the engine runs: with an     *)
(* unsupported encoding, an odd-length hex payload or two definitions of   *)
(* the same byte value, the engine is never invoked and no artifact and no *)
(* audit record is written.                                                *)
(***************************************************************************)
HasBadDefinition ==
  \E i \in 1..Len(search_items) : val_as_bytes_raises(search_items[i]) # "none"

HasDuplicateByteValues ==
  \E i, j \in 1..Len(search_items) :
    /\ i # j
    /\ val_as_bytes_raises(search_items[i]) = "none"
    /\ val_as_bytes_raises(search_items[j]) = "none"
    /\ val_as_bytes(search_items[i]) = val_as_bytes(search_items[j])

\* C2: a configuration error leaves the engine uninvoked and the outputs empty
ConfigurationErrorsAbortBeforeEngine ==
  (HasBadDefinition \/ HasDuplicateByteValues)
  => /\ ~EngineInvoked
     /\ artifacts = <<>>
     /\ global_log = <<>>
     /\ group_logs = <<>>

(***************************************************************************)
(* C3.  Window clamping: save_match_to_file computes                       *)
(* start = max(global_offset - window_before, 0) and                       *)
(* end = min(global_offset + len(byte_value) + window_after, file_size);   *)
(* start is never negative, end never exceeds file_size, and when          *)
(* global_offset < window_before the before-size in the file name is       *)
(* global_offset.                                                          *)
(***************************************************************************)
WindowClampingStep ==
  (pc = "save_stat" /\ pc' = "save_read")
  => LET st_size == file_size[SourceFile.path]
     IN  /\ start_global_offset' =
               MaxOf(global_offset - search_item.byte_count_before_match, 0)
         /\ end_global_offset' =
               MinOf(global_offset + Len(val_as_bytes(search_item))
                       + search_item.byte_count_after_match,
                     st_size)
         /\ start_global_offset' >= 0
         /\ end_global_offset' <= st_size
         /\ global_offset < search_item.byte_count_before_match
              => /\ byte_count_before_match' = global_offset
                 /\ GroupValue(LocalPart(output_filename'), 1) = global_offset

\* C3: every step of save_match_to_file that computes the window clamps it
WindowClamping == [][WindowClampingStep]_vars

WindowClampingWitness ==
  /\ pc = "save_read"
  /\ global_offset > 0
  /\ global_offset < search_item.byte_count_before_match
  /\ start_global_offset = 0
  /\ end_global_offset < global_offset + Len(val_as_bytes(search_item))
                           + search_item.byte_count_after_match

(***************************************************************************)
(* C4.  No partial artifact: a written artifact holds exactly end - start  *)
(* bytes, those of the slice [start, end) of the source file; when the     *)
(* source yields fewer bytes than that, or the length is negative, the     *)
(* operation fails and no artifact is created or overwritten.              *)
(***************************************************************************)
IsSourceSlice(data) ==
  /\ Len(data) = end_global_offset - start_global_offset
  /\ \A i \in 1..Len(data) :
       /\ start_global_offset + i <= Len(SourceBytes)
       /\ data[i] = SourceBytes[start_global_offset + i]

CurrentArtifact == [directory |-> directory, filename |-> output_filename]

WholeArtifactOnly ==
  /\ pc = "save_write" => IsSourceSlice(data_bytes)
  /\ (pc \in {"log_global", "log_group"} /\ search_item.write_to_file)
       => /\ CurrentArtifact \in DOMAIN artifacts
          /\ IsSourceSlice(artifacts[CurrentArtifact])

\* the number of bytes the source file holds from offset start on
BytesFrom(start) ==
  IF Len(SourceBytes) > start THEN Len(SourceBytes) - start ELSE 0

FailedReadWritesNothing ==
  pc = "save_read"
  => /\ artifacts' = artifacts
     /\ (end_global_offset < start_global_offset
           \/ BytesFrom(start_global_offset) < end_global_offset - start_global_offset)
          => pc' \in {"save_read", "aborted"}

\* C4: only whole slices are written, and a failed read writes nothing
NoPartialArtifact == []WholeArtifactOnly /\ [][FailedReadWritesNothing]_vars

NoPartialArtifactWitness ==
  /\ pc = "aborted"
  /\ raised = "AssertionError"
  /\ EngineInvoked
  /\ start_global_offset < end_global_offset
  /\ Len(data_bytes) > 0
  /\ Len(data_bytes) < end_global_offset - start_global_offset
  /\ artifacts # <<>>

(***************************************************************************)
(* C5.  WindowError is recoverable: when the computed range is invalid     *)
(* (start > end), the artifact write is skipped, the audit record is still *)
(* appended and the run goes on.                                           *)
(***************************************************************************)
InvalidWindowStep ==
  (pc = "save_read" /\ end_global_offset < start_global_offset
     /\ pc' # "save_read" /\ raised' # "OSError")
  => /\ pc' = "log_global"
     /\ artifacts' = artifacts

\* C5: a step from an invalid window skips the write and goes on to the logs
WindowErrorIsRecoverable == [][InvalidWindowStep]_vars

(***************************************************************************)
(* C6.  Per-match I/O failure isolation: a failing read of the source, or  *)
(* a failing write of the artifact or of a log, does not abort the run.    *)
(***************************************************************************)
IOFailureIsIsolated == raised = "OSError" => pc # "aborted"

(***************************************************************************)
(* C7.  Audit trail: the run-global log is exactly the records of the      *)
(* submatches processed so far, one per submatch of each "match" record,   *)
(* in the engine's order, each with global_offset = absolute_offset +      *)
(* start; each is also appended to the log of its group; no earlier record *)
(* of either log is altered or removed.                                    *)
(***************************************************************************)
AuditTrailState ==
  LET flat == Flat
  IN
  /\ Len(global_log) <= Len(flat)
  /\ \A i \in 1..Len(global_log) :
       /\ Cardinality(Owners(MatchedBytes(SubmatchAt(flat[i])))) = 1
       /\ global_log[i] = ExpectedRecord(flat[i])
       /\ PointsAtPattern(global_log[i])
  /\ Len(global_log) \in {running_submatch_count, running_submatch_count + 1}
  /\ pc \in {"loop", "correlate", "save_stat", "save_read", "save_write",
             "log_global", "done"}
       => Len(global_log) = running_submatch_count
  /\ pc = "log_group" => Len(global_log) = running_submatch_count + 1
  /\ pc = "done" => Len(global_log) = Len(flat)
  /\ \A d \in dirs \cup DOMAIN group_logs :
       GroupLog(d) = SelectSeq(SubSeq(global_log, 1, running_submatch_count),
                               LAMBDA rec : RecordDirectory(rec) = d)

LogsOnlyGrow ==
  /\ IsPrefix(global_log, global_log')
  /\ \A d \in DOMAIN group_logs :
       /\ d \in DOMAIN group_logs'
       /\ IsPrefix(group_logs[d], group_logs'[d])

\* C7: the logs are the records owed so far, and they only grow
AuditTrail == []AuditTrailState /\ [][LogsOnlyGrow]_vars

AuditTrailWitness ==
  /\ pc = "done"
  /\ Len(global_log) >= 3
  /\ \E d \in DOMAIN group_logs : Len(group_logs[d]) >= 2
  /\ \E d \in DOMAIN group_logs : Len(group_logs[d]) < Len(global_log)
  /\ \E m \in 1..Len(results) :
       /\ results[m].type = "match"
       /\ Len(results[m].data.submatches) >= 2
  /\ \E i \in 1..Len(global_log) :
       /\ results[Flat[i][1]].data.absolute_offset > 0
       /\ SubmatchAt(Flat[i]).start > 0
       /\ global_log[i].global_offset
            = results[Flat[i][1]].data.absolute_offset + SubmatchAt(Flat[i]).start
  /\ Len(results) > Len(global_log)

(***************************************************************************)
(* C8.  Persist flag: an artifact is written for a resolved match exactly  *)
(* when its definition has write_to_file; a match of a definition without  *)
(* it creates or changes no artifact and is still logged in both logs.     *)
(***************************************************************************)
PersistFlagState ==
  LET flat == Flat
  IN
  /\ \A i \in 1..running_submatch_count :
       /\ i <= Len(global_log)
       /\ flat[i] \in saved <=> global_log[i].search_item.write_to_file
       /\ \E k \in 1..Len(GroupLog(RecordDirectory(global_log[i]))) :
            GroupLog(RecordDirectory(global_log[i]))[k] = global_log[i]
  /\ pc \in {"save_stat", "save_read", "save_write"} => search_item.write_to_file
  /\ pc \in {"log_global", "log_group"}
       => (<<match_num, submatch_num>> \in saved <=> search_item.write_to_file)
  /\ \A p \in DOMAIN artifacts :
       \E i \in 1..Len(search_items) :
         /\ search_items[i].write_to_file
         /\ p.directory.group
              = <<search_items[i].happiness_level, search_items[i].name>>
  /\ saved_to_file_count = Cardinality(saved)

ArtifactsChangeOnlyBySave ==
  artifacts' # artifacts => (pc = "save_write" /\ search_item.write_to_file)

\* C8: artifacts are written for, and only for, definitions with write_to_file
PersistFlag == []PersistFlagState /\ [][ArtifactsChangeOnlyBySave]_vars

PersistFlagWitness ==
  /\ pc = "done"
  /\ \E i \in 1..Len(global_log) :
       /\ ~global_log[i].search_item.write_to_file
       /\ Flat[i] \notin saved
  /\ \E i \in 1..Len(global_log) :
       /\ global_log[i].search_item.write_to_file
       /\ Flat[i] \in saved
       /\ RecordArtifact(global_log[i]) \in DOMAIN artifacts

(***************************************************************************)
(* C9.  Fixed-width offsets in the artifact name.  As claimed: for every   *)
(* global offset below 2^48 and every window_before, the global offset is  *)
(* rendered as exactly 12 hex digits and the before-offset (at most the    *)
(* global offset) as exactly 4, zero-padded, in underscore-separated       *)
(* groups of 4.                                                            *)
(***************************************************************************)
TwelveDigits ==
  /\ Len(fmt_val) = 14
  /\ fmt_val[5] = "_"
  /\ fmt_val[10] = "_"
  /\ \A j \in 1..3 : GroupValue(fmt_val, 5 * (j - 1) + 1) = PaddedLimb(value, 3, j)

FourDigits ==
  /\ Len(fmt_val) = 4
  /\ GroupValue(fmt_val, 1) = PaddedLimb(value, 1, 1)

ArtifactBeforeRecord ==
  LET flat == Flat
  IN
  /\ \A i \in 1..Len(global_log) :
       global_log[i].search_item.write_to_file
       => /\ i <= Len(flat)
          /\ flat[i] \in saved
          /\ RecordArtifact(global_log[i]) \in DOMAIN artifacts
  /\ \A d \in DOMAIN group_logs :
       \A k \in 1..Len(group_logs[d]) :
         \E i \in 1..Len(global_log) : global_log[i] = group_logs[d][k]
  /\ \A d \in DOMAIN group_logs :
       Len(group_logs[d])
         <= Len(SelectSeq(global_log, LAMBDA rec : RecordDirectory(rec) = d))

ArtifactBeforeRecordWitness ==
  /\ pc = "log_group"
  /\ search_item.write_to_file
  /\ Len(global_log) >= 2
  /\ Len(GroupLog(directory)) < Len(global_log)
  /\ CurrentArtifact \in DOMAIN artifacts

============================================================================
